---------------------------- MODULE Spec2Model ----------------------------
(***************************************************************************)
(* The valve-network engine of day16 (src/day16/src/main.rs): the Open-Set *)
(* bitmask, the single-agent and dual-agent Simulators                     *)
(* (total_pressure_released) and the two search engines (solve).           *)
(***************************************************************************)
EXTENDS Integers, Sequences, FiniteSets, TLC

VARIABLES
    pc,                 \* which routine runs
    input,              \* from_str: the description `s`, line by line
    network,            \* the ValveNetwork the routine was given
    minutes,            \* the `minutes` argument
    action_count,       \* the `action_count` argument of solve
    actions,            \* NetworkPlan.actions being scored / returned by solve
    minute,             \* loop variable of total_pressure_released
    released,           \* local `released`
    open_valves,        \* local `open_valves` (the u64 of OpenValves)
    human_position,     \* part1 `current_position`, part2 `human_position`
    elephant_position,  \* part2 `elephant_position`
    result,             \* <<>> while running, <<r>> once the routine returned r
    frontier,           \* solve: the frontier (VecDeque / PriorityQueue)
    flow_rates_cache,   \* solve: HashMap<Rc<NetworkState>, usize>
    best_at_depth       \* part2 solve: HashMap<usize, usize>

simVars == <<minute, released, open_valves, human_position, elephant_position>>
searchVars == <<frontier, flow_rates_cache, best_at_depth>>
vars == <<pc, input, network, minutes, action_count, actions, result, simVars, searchVars>>

--------------------------------------------------------------------------
(* Bounds of the model *)

NumValves == 3      \* valves of the generated networks: ids 0..NumValves-1
MaxFlow == 2        \* flow rates of the generated networks: 0..MaxFlow
MaxMinutes == 4     \* horizons 1..MaxMinutes
MaxPlanLen == 3     \* single-agent plans scored by the Simulator
MaxDualPlanLen == 2 \* dual-agent plans scored by the Simulator

--------------------------------------------------------------------------
(* OpenValves: a bitmask over valve ids *)

\* OpenValves::default()
DefaultOpenValves == 0

\* the width of the u64 that OpenValves wraps
MaskBits == 64

\* `1 << id.0` and `self.0 >> id.0` with id.0 >= 64 overflow the shift: the
\* debug build panics, the release build shifts by id.0 % 64
shift_overflows(id) == id >= MaskBits
shift_amount(id) == id % MaskBits

\* open that keeps only the valve opened last
open_Replace(ov, id) == 2 ^ id

\* OpenValves::is_open: (self.0 >> id.0) & 1 == 1
is_open(ov, id) == (ov \div (2 ^ shift_amount(id))) % 2 = 1

\* open with the bit index off by one
open_OffByOne(ov, id) == IF is_open(ov, id + 1) THEN ov ELSE ov + 2 ^ (id + 1)

\* OpenValves::open: self.0 | 1 << id.0
open(ov, id) == IF is_open(ov, id) THEN ov ELSE ov + 2 ^ shift_amount(id)

\* the `&` of two u64
RECURSIVE bit_and(_, _)
bit_and(a, b) ==
    IF a = 0 \/ b = 0 THEN 0
    ELSE (a % 2) * (b % 2) + 2 * bit_and(a \div 2, b \div 2)

\* OpenValves::close: self.0 & 0 << id.0, where `<<` binds tighter than `&`
close(ov, id) == bit_and(ov, 0 * 2 ^ shift_amount(id))

\* OpenValves::iter: (0..64).filter(|i| (self.0 >> i) & 1 == 1), ascending;
\* bits at and above the highest set bit's successor are all clear
RECURSIVE iter_from(_, _)
iter_from(ov, i) ==
    IF ov = 0 THEN <<>>
    ELSE IF ov % 2 = 1 THEN <<i>> \o iter_from(ov \div 2, i + 1)
    ELSE iter_from(ov \div 2, i + 1)

iter(ov) == iter_from(ov, 0)

--------------------------------------------------------------------------
(* ValveAction, Result *)

Open == [kind |-> "Open", valve_id |-> 0]
MoveTo(id) == [kind |-> "MoveTo", valve_id |-> id]

Ok(v) == [tag |-> "Ok", val |-> v]
Err == [tag |-> "Err", val |-> 0]   \* Err("Cannot move to valve from current valve")
Panic == [tag |-> "Panic", val |-> 0]   \* an unwrap or assertion panicked

\* `minutes - 1` with minutes = 0: the subtraction of usize overflows, which
\* panics in a debug build and wraps to usize::MAX in a release build, where
\* the loop then runs usize::MAX ticks; neither returns a Result in a run
Underflow == [tag |-> "Underflow", val |-> 0]

\* a shift by 64 or more was met: the debug build panics there, the release
\* build goes on with the wrapped shift and returns r
ShiftOverflow(r) == [tag |-> "ShiftOverflow", val |-> r.val, release |-> r.tag]

\* the value returned by a run whose locals end as st
returned(st, r) == IF st.overflowed THEN ShiftOverflow(r) ELSE r

\* Vec::contains
contains(seq, x) == \E i \in 1..Len(seq) : seq[i] = x

\* .map(|valve_id| flow_rates[&valve_id]).sum::<usize>()
RECURSIVE sum_flow(_, _)
sum_flow(net, ids) ==
    IF ids = <<>> THEN 0
    ELSE net.flow_rates[Head(ids)] + sum_flow(net, Tail(ids))

--------------------------------------------------------------------------
(* part1::NetworkPlan::total_pressure_released *)

\* the locals of the loop; failed is set by `return Err(..)`
SimState(rel, ov, hp, ep) ==
    [released |-> rel, open_valves |-> ov, human_position |-> hp,
     elephant_position |-> ep, failed |-> FALSE, overflowed |-> FALSE]

\* resolve without the check of MoveTo against the tunnels
resolve_Unchecked(net, st, pos, action) ==
    IF action.kind = "MoveTo"
    THEN [failed |-> FALSE, overflowed |-> FALSE, pos |-> action.valve_id,
               open_valves |-> st.open_valves]
    ELSE [failed |-> FALSE, overflowed |-> shift_overflows(pos), pos |-> pos,
          open_valves |-> open(st.open_valves, pos)]

\* resolve with the Open legality rule enforced: Open fails at a zero-flow
\* valve and at an open valve
resolve_StrictOpen(net, st, pos, action) ==
    IF action.kind = "MoveTo"
    THEN IF ~contains(net.edges[pos], action.valve_id)
         THEN [failed |-> TRUE, overflowed |-> FALSE, pos |-> pos,
               open_valves |-> st.open_valves]
         ELSE [failed |-> FALSE, overflowed |-> FALSE, pos |-> action.valve_id,
               open_valves |-> st.open_valves]
    ELSE IF net.flow_rates[pos] = 0 \/ is_open(st.open_valves, pos)
         THEN [failed |-> TRUE, overflowed |-> FALSE, pos |-> pos,
               open_valves |-> st.open_valves]
         ELSE [failed |-> FALSE, overflowed |-> shift_overflows(pos), pos |-> pos,
          open_valves |-> open(st.open_valves, pos)]

\* the `match action` block: one agent at pos performs action
resolve(net, st, pos, action) ==
    IF action.kind = "MoveTo"
    THEN IF ~contains(net.edges[pos], action.valve_id)
         THEN [failed |-> TRUE, overflowed |-> FALSE, pos |-> pos,
               open_valves |-> st.open_valves]
         ELSE [failed |-> FALSE, overflowed |-> FALSE, pos |-> action.valve_id,
               open_valves |-> st.open_valves]
    ELSE [failed |-> FALSE, overflowed |-> shift_overflows(pos), pos |-> pos,
          open_valves |-> open(st.open_valves, pos)]

\* accrue with the Open-Set as it was before the tick's action
accrue_Before(net, st, ov) == st.released + sum_flow(net, iter(st.open_valves))

\* released += open_valves.iter().map(..).sum()
accrue(net, st, ov) == st.released + sum_flow(net, iter(ov))

\* a tick with no action left in the plan accruing nothing
tick1_IdleStops(net, plan, st, m) ==
    IF m + 1 <= Len(plan)
    THEN LET r == resolve(net, st, st.human_position, plan[m + 1])
         IN IF r.failed THEN [st EXCEPT !.failed = TRUE]
            ELSE [st EXCEPT !.human_position = r.pos,
                            !.open_valves = r.open_valves,
                            !.overflowed = @ \/ r.overflowed,
                            !.released = accrue(net, st, r.open_valves)]
    ELSE st

\* one iteration of part1's `for minute in 0..minutes - 1`
tick1(net, plan, st, m) ==
    IF m + 1 <= Len(plan)        \* self.actions.get(minute) is Some
    THEN LET r == resolve(net, st, st.human_position, plan[m + 1])
         IN IF r.failed THEN [st EXCEPT !.failed = TRUE]
            ELSE [st EXCEPT !.human_position = r.pos,
                            !.open_valves = r.open_valves,
                            !.overflowed = @ \/ r.overflowed,
                            !.released = accrue(net, st, r.open_valves)]
    ELSE [st EXCEPT !.released = accrue(net, st, st.open_valves)]

\* one iteration of part2's `for minute in 0..minutes - 1`
tick2(net, plan, st, m) ==
    IF m + 1 <= Len(plan)
    THEN LET h == resolve(net, st, st.human_position, plan[m + 1][1])
         IN IF h.failed THEN [st EXCEPT !.failed = TRUE]
            ELSE LET st1 == [st EXCEPT !.human_position = h.pos,
                                       !.open_valves = h.open_valves,
                                       !.overflowed = @ \/ h.overflowed]
                     e == resolve(net, st1, st1.elephant_position, plan[m + 1][2])
                 IN IF e.failed THEN [st1 EXCEPT !.failed = TRUE]
                    ELSE [st1 EXCEPT !.elephant_position = e.pos,
                                     !.open_valves = e.open_valves,
                                     !.overflowed = @ \/ e.overflowed,
                                     !.released = accrue(net, st1, e.open_valves)]
    ELSE [st EXCEPT !.released = accrue(net, st, st.open_valves)]

\* the range 0..minutes, one tick too many
loop_end_Minutes(mins) == mins

\* the end of the range 0..minutes - 1, for minutes >= 1
loop_end(mins) == mins - 1

RECURSIVE run1(_, _, _, _, _)
run1(net, plan, mins, st, m) ==
    IF m >= loop_end(mins) THEN returned(st, Ok(st.released))
    ELSE LET st2 == tick1(net, plan, st, m)
         IN IF st2.failed THEN returned(st2, Err)
            ELSE run1(net, plan, mins, st2, m + 1)

total_pressure_released1(net, plan, mins) ==
    IF mins = 0 THEN Underflow
    ELSE run1(net, plan, mins,
              SimState(0, DefaultOpenValves, net.start_position, net.start_position), 0)

RECURSIVE run2(_, _, _, _, _)
run2(net, plan, mins, st, m) ==
    IF m >= loop_end(mins) THEN returned(st, Ok(st.released))
    ELSE LET st2 == tick2(net, plan, st, m)
         IN IF st2.failed THEN returned(st2, Err)
            ELSE run2(net, plan, mins, st2, m + 1)

total_pressure_released2(net, plan, mins) ==
    IF mins = 0 THEN Underflow
    ELSE run2(net, plan, mins,
              SimState(0, DefaultOpenValves, net.start_position, net.start_position), 0)

--------------------------------------------------------------------------
(* ValveNetwork values *)

Valves == 0..NumValves - 1

RECURSIVE SortedSeq(_)
SortedSeq(S) ==
    IF S = {} THEN <<>>
    ELSE LET m == CHOOSE x \in S : \A y \in S : x <= y
         IN <<m>> \o SortedSeq(S \ {m})

\* the unordered pairs of distinct valves: the tunnels a description can list
Pairs == {p \in SUBSET Valves : Cardinality(p) = 2}

\* a ValveNetwork whose description lists every tunnel in both directions,
\* neighbours in ascending order, and whose valve "AA" has index 0
NetworkOf(tunnels, flows) ==
    [start_position |-> 0,
     flow_rates |-> flows,
     edges |-> [v \in Valves |-> SortedSeq({w \in Valves : {v, w} \in tunnels})]]

\* one-way tunnels, neighbours out of order, a valve that leads to itself,
\* a start valve that is not index 0 and has a flow rate
ExtraNetworks ==
    { [start_position |-> 0, flow_rates |-> <<1, 2>>,
       edges |-> <<<<1>>, <<>>>>],
      [start_position |-> 1, flow_rates |-> <<2, 1, 0>>,
       edges |-> <<<<1>>, <<2, 0>>, <<1, 2>>>>],
      [start_position |-> 0, flow_rates |-> <<0, 2, 1>>,
       edges |-> <<<<2, 1>>, <<2>>, <<0>>>>] }

ZeroBased(net) ==
    [start_position |-> net.start_position,
     flow_rates |-> [v \in 0..Len(net.flow_rates) - 1 |-> net.flow_rates[v + 1]],
     edges |-> [v \in 0..Len(net.edges) - 1 |-> net.edges[v + 1]]]

FlowRamp == [v \in Valves |-> v % (MaxFlow + 1)]
Line == {p \in Pairs : \E v \in Valves : p = {v, v + 1}}
Star == {p \in Pairs : 0 \in p}

\* the networks the Simulator is run on
SimNetworks ==
    {NetworkOf(t, FlowRamp) : t \in {{}, Line, Star, Pairs}}
    \cup {ZeroBased(n) : n \in ExtraNetworks}

ValveIdsOf(net) == DOMAIN net.flow_rates

\* every ValveAction over the network's ids
ActionsOf(net) == {Open} \cup {MoveTo(v) : v \in ValveIdsOf(net)}

SeqsUpTo(S, n) == UNION {[1..k -> S] : k \in 0..n}

--------------------------------------------------------------------------
(* The Simulator run tick by tick *)

InitSim ==
    /\ input = <<>>
    /\ network \in SimNetworks
    /\ minutes \in 1..MaxMinutes
    /\ \/ /\ pc = "score1"
          /\ actions \in SeqsUpTo(ActionsOf(network), MaxPlanLen)
       \/ /\ pc = "score2"
          /\ actions \in SeqsUpTo(ActionsOf(network) \X ActionsOf(network),
                                  MaxDualPlanLen)
    /\ action_count = 0
    /\ minute = 0
    /\ released = 0
    /\ open_valves = DefaultOpenValves
    /\ human_position = network.start_position
    /\ elephant_position = network.start_position
    /\ result = <<>>
    /\ frontier = <<>>
    /\ flow_rates_cache = <<>>
    /\ best_at_depth = <<>>

Locals == SimState(released, open_valves, human_position, elephant_position)

SetLocals(st) ==
    /\ released' = st.released
    /\ open_valves' = st.open_valves
    /\ human_position' = st.human_position
    /\ elephant_position' = st.elephant_position

\* part1: one iteration of the loop, or the return Err inside it
Score1Tick ==
    /\ pc = "score1"
    /\ result = <<>>
    /\ minute < loop_end(minutes)
    /\ LET st == tick1(network, actions, Locals, minute)
       IN \E debug \in IF st.overflowed THEN BOOLEAN ELSE {FALSE} :
          IF debug                  \* attempt to shift left with overflow
          THEN /\ result' = <<Panic>>
               /\ UNCHANGED simVars
          ELSE IF st.failed
          THEN /\ result' = <<Err>>
               /\ UNCHANGED simVars
          ELSE /\ SetLocals(st)
               /\ minute' = minute + 1
               /\ UNCHANGED result
    /\ UNCHANGED <<pc, input, network, minutes, action_count, actions, searchVars>>

\* part1: Ok(released) after the loop
Score1Return ==
    /\ pc = "score1"
    /\ result = <<>>
    /\ minute >= loop_end(minutes)
    /\ result' = <<Ok(released)>>
    /\ UNCHANGED <<pc, input, network, minutes, action_count, actions, simVars, searchVars>>

\* part2: one iteration of the loop, or a return Err inside it
Score2Tick ==
    /\ pc = "score2"
    /\ result = <<>>
    /\ minute < loop_end(minutes)
    /\ LET st == tick2(network, actions, Locals, minute)
       IN \E debug \in IF st.overflowed THEN BOOLEAN ELSE {FALSE} :
          IF debug                  \* attempt to shift left with overflow
          THEN /\ result' = <<Panic>>
               /\ UNCHANGED simVars
          ELSE IF st.failed
          THEN /\ result' = <<Err>>
               /\ SetLocals(st)
               /\ UNCHANGED minute
          ELSE /\ SetLocals(st)
               /\ minute' = minute + 1
               /\ UNCHANGED result
    /\ UNCHANGED <<pc, input, network, minutes, action_count, actions, searchVars>>

\* part2: Ok(released) after the loop
Score2Return ==
    /\ pc = "score2"
    /\ result = <<>>
    /\ minute >= loop_end(minutes)
    /\ result' = <<Ok(released)>>
    /\ UNCHANGED <<pc, input, network, minutes, action_count, actions, simVars, searchVars>>

NextSim == Score1Tick \/ Score1Return \/ Score2Tick \/ Score2Return

Spec == InitSim /\ [][NextSim]_vars

--------------------------------------------------------------------------
(* part1::NetworkState and part1::NetworkPlan::solve *)

\* Option<T>: None is <<>>, Some(x) is <<x>>
None == <<>>
Some(x) == <<x>>
is_some(o) == o # <<>>
unwrap(o) == o[1]

Plan == [tag |-> "Plan", val |-> 0]     \* solve returned a NetworkPlan
\* `.last().unwrap()` on None: no memo entry of depth == action_count
SearchExhausted == [tag |-> "SearchExhausted", val |-> 0]
\* the release build's loop of usize::MAX ticks: solve does not return
NoReturn == [tag |-> "NoReturn", val |-> 0]

\* how solve ends once a child's total_pressure_released has failed: the
\* unwrap of an Err panics; the overflow of `minutes - 1` panics or loops
failure_outcomes(mins) == IF mins = 0 THEN {<<Panic>>, <<NoReturn>>} ELSE {<<Panic>>}

RECURSIVE reverse(_)
reverse(seq) == IF seq = <<>> THEN <<>> ELSE Append(reverse(Tail(seq)), Head(seq))

\* the `while let Some(node) = &current.parent` loop of backtrack
RECURSIVE backtrack_loop(_)
backtrack_loop(current) ==
    IF is_some(current.parent)
    THEN LET node == unwrap(current.parent)
         IN (IF is_some(node.action) THEN <<unwrap(node.action)>> ELSE <<>>)
            \o backtrack_loop(node)
    ELSE <<>>

\* backtrack without the final state's own action
backtrack_NoOwn(state) == reverse(backtrack_loop(state))

\* NetworkState::backtrack (both parts); the state passed always has an action
backtrack(state) == reverse(<<unwrap(state.action)>> \o backtrack_loop(state))

\* part1's initial_state
initial_state1(net) ==
    [current_position |-> net.start_position,
     open_valves |-> DefaultOpenValves,
     parent |-> None,
     action |-> None,
     depth |-> 0]

\* the Open guard without the flow-rate test
may_open_AnyFlow(net, ov, pos) == ~is_open(ov, pos)

\* `!parent.open_valves.is_open(position) && network.flow_rates[&position] > 0`
may_open(net, ov, pos) == ~is_open(ov, pos) /\ net.flow_rates[pos] > 0

\* expand without the move commands
expand1_OpenOnly(parent, net) ==
    IF may_open(net, parent.open_valves, parent.current_position)
    THEN <<[current_position |-> parent.current_position,
            open_valves |-> open(parent.open_valves, parent.current_position),
            parent |-> Some(parent),
            action |-> Some(Open),
            depth |-> parent.depth + 1]>>
    ELSE <<>>

\* part1::NetworkState::expand
expand1(parent, net) ==
    (IF may_open(net, parent.open_valves, parent.current_position)
     THEN <<[current_position |-> parent.current_position,
             open_valves |-> open(parent.open_valves, parent.current_position),
             parent |-> Some(parent),
             action |-> Some(Open),
             depth |-> parent.depth + 1]>>
     ELSE <<>>)
    \o [i \in 1..Len(net.edges[parent.current_position]) |->
          LET location == net.edges[parent.current_position][i]
          IN [current_position |-> location,
              open_valves |-> parent.open_valves,
              parent |-> Some(parent),
              action |-> Some(MoveTo(location)),
              depth |-> parent.depth + 1]]

\* part1::NetworkState::total_pressure_released (before its unwrap)
state_pressure1(state, net, mins) ==
    total_pressure_released1(net, backtrack(state), mins)

\* a key that leaves the Open-Set out
key1_NoMask(state) == <<state.depth, state.current_position, 0>>

\* what part1's PartialEq and Hash read: depth, current_position, open_valves
key1(state) == <<state.depth, state.current_position, state.open_valves>>

\* HashMap get / insert by key; an entry is None or Some([state, rate])
cache_get(cache, k) == cache[k[1]][k[2]][k[3]]
cache_insert(cache, k, state, rate) ==
    [cache EXCEPT ![k[1]][k[2]][k[3]] = Some([state |-> state, rate |-> rate])]

\* HashMap::new(), over the keys a search with this action_count can make
empty_cache1(net, ac) ==
    [d \in 0..ac + 1 |->
        [p \in ValveIdsOf(net) |->
            [m \in 0..2 ^ Cardinality(ValveIdsOf(net)) - 1 |-> None]]]

\* the locals of solve
SearchState(fr, cache, best) ==
    [frontier |-> fr, flow_rates_cache |-> cache, best_at_depth |-> best,
     panicked |-> FALSE]

\* the memo test with >= for >
improves_OrEqual(rate, entry) == ~is_some(entry) \/ rate >= unwrap(entry).rate

\* `Some(rate) > current`: the key is absent or holds a smaller rate
improves(rate, entry) == ~is_some(entry) \/ rate > unwrap(entry).rate

\* the body of part1's `for child in expand(..)`, children i.. of the list
RECURSIVE admit1(_, _, _, _, _)
admit1(s, children, i, net, mins) ==
    IF i > Len(children) \/ s.panicked THEN s
    ELSE LET child == children[i]
             rate == state_pressure1(child, net, mins)
             entry == cache_get(s.flow_rates_cache, key1(child))
         IN IF rate.tag # "Ok" THEN [s EXCEPT !.panicked = TRUE]
            ELSE IF improves(rate.val, entry)
            THEN admit1([s EXCEPT
                           !.flow_rates_cache =
                               cache_insert(@, key1(child), child, rate.val),
                           !.frontier = Append(@, child)],
                        children, i + 1, net, mins)
            ELSE admit1(s, children, i + 1, net, mins)

\* the expansion test with < for <=
expands1_Strict(state, ac) == state.depth < ac

\* `if state.depth <= action_count`
expands1(state, ac) == state.depth <= ac

\* one iteration of part1's `while let Some(state) = frontier.pop_front()`
iterate1(s, net, ac, mins) ==
    LET state == Head(s.frontier)
        popped == [s EXCEPT !.frontier = Tail(@)]
    IN IF expands1(state, ac)
       THEN admit1(popped, expand1(state, net), 1, net, mins)
       ELSE popped

\* the entries of the memo table at depth == action_count
terminal1(cache, ac) ==
    UNION {{unwrap(cache[ac][p][m]) :
                m \in {m \in DOMAIN cache[ac][p] : is_some(cache[ac][p][m])}}
           : p \in DOMAIN cache[ac]}

\* `.sorted_by_key(|(_, rate)| *rate).last()`: an entry of the highest rate;
\* which one of several is decided by the hash map's iteration order
best_entries(entries) == {e \in entries : \A f \in entries : f.rate <= e.rate}

\* the lowest rate instead of the highest
chosen_entries_Worst(entries) == {e \in entries : \A f \in entries : f.rate >= e.rate}

chosen_entries(entries) == best_entries(entries)

--------------------------------------------------------------------------
(* part2::NetworkState and part2::NetworkPlan::solve *)

\* the depth offset of `child.depth.saturating_sub(3)`
SlackWindow == 3

\* part2's initial_state
initial_state2(net) ==
    [human_position |-> net.start_position,
     elephant_position |-> net.start_position,
     open_valves |-> DefaultOpenValves,
     parent |-> None,
     action |-> None,
     depth |-> 0]

\* part2::NetworkState::possible_actions_from
possible_actions_from(parent, net, current_position) ==
    (IF may_open(net, parent.open_valves, current_position) THEN <<Open>> ELSE <<>>)
    \o [i \in 1..Len(net.edges[current_position]) |->
          MoveTo(net.edges[current_position][i])]

\* Itertools::cartesian_product: the first list is the outer loop
cartesian_product(xs, ys) ==
    [k \in 1..Len(xs) * Len(ys) |->
        <<xs[((k - 1) \div Len(ys)) + 1], ys[((k - 1) % Len(ys)) + 1]>>]

\* the closure without the test for a co-located double Open
child2_Unfiltered(parent, human_action, elephant_action) ==
    Some([action |-> Some(<<human_action, elephant_action>>),
          depth |-> parent.depth + 1,
          human_position |->
              IF human_action.kind = "MoveTo" THEN human_action.valve_id
              ELSE parent.human_position,
          elephant_position |->
              IF elephant_action.kind = "MoveTo" THEN elephant_action.valve_id
              ELSE parent.elephant_position,
          parent |-> Some(parent),
          open_valves |->
              LET ov1 == IF human_action = Open
                         THEN open(parent.open_valves, parent.human_position)
                         ELSE parent.open_valves
              IN IF elephant_action = Open
                 THEN open(ov1, parent.elephant_position)
                 ELSE ov1])

\* the closure with the child's two positions exchanged
child2_Swapped(parent, human_action, elephant_action) ==
    IF /\ human_action = Open
       /\ elephant_action = Open
       /\ parent.human_position = parent.elephant_position
    THEN None
    ELSE LET c == unwrap(child2_Unfiltered(parent, human_action, elephant_action))
         IN Some([c EXCEPT !.human_position = c.elephant_position,
                           !.elephant_position = c.human_position])

\* the closure of expand's flat_map: None for a co-located double Open
child2(parent, human_action, elephant_action) ==
    IF /\ human_action = Open
       /\ elephant_action = Open
       /\ parent.human_position = parent.elephant_position
    THEN None
    ELSE Some([action |-> Some(<<human_action, elephant_action>>),
               depth |-> parent.depth + 1,
               human_position |->
                   IF human_action.kind = "MoveTo" THEN human_action.valve_id
                   ELSE parent.human_position,
               elephant_position |->
                   IF elephant_action.kind = "MoveTo" THEN elephant_action.valve_id
                   ELSE parent.elephant_position,
               parent |-> Some(parent),
               open_valves |->
                   LET ov1 == IF human_action = Open
                              THEN open(parent.open_valves, parent.human_position)
                              ELSE parent.open_valves
                   IN IF elephant_action = Open
                      THEN open(ov1, parent.elephant_position)
                      ELSE ov1])

RECURSIVE flatten(_)
flatten(options) ==
    IF options = <<>> THEN <<>> ELSE Head(options) \o flatten(Tail(options))

\* part2::NetworkState::expand
expand2(parent, net) ==
    LET human_actions == possible_actions_from(parent, net, parent.human_position)
        elephant_actions == possible_actions_from(parent, net, parent.elephant_position)
        pairs == cartesian_product(human_actions, elephant_actions)
    IN flatten([k \in 1..Len(pairs) |-> child2(parent, pairs[k][1], pairs[k][2])])

\* part2::NetworkState::total_pressure_released (before its unwrap)
state_pressure2(state, net, mins) ==
    total_pressure_released2(net, backtrack(state), mins)

\* what part2's PartialEq and Hash read: depth, the two positions with the
\* smaller first, open_valves
key2(state) ==
    IF state.human_position < state.elephant_position
    THEN <<state.depth, state.human_position, state.elephant_position,
           state.open_valves>>
    ELSE <<state.depth, state.elephant_position, state.human_position,
           state.open_valves>>

\* the pair (a, b) both eq and hash compute: the two positions, smaller first
canonical_positions_AsHeld(state) == <<state.human_position, state.elephant_position>>

canonical_positions(state) ==
    IF state.human_position < state.elephant_position
    THEN <<state.human_position, state.elephant_position>>
    ELSE <<state.elephant_position, state.human_position>>

\* part2's PartialEq::eq
eq2(self, other) ==
    LET ab == canonical_positions(self)
        oab == canonical_positions(other)
    IN /\ ab[1] = oab[1]
       /\ ab[2] = oab[2]
       /\ self.open_valves = other.open_valves
       /\ self.depth = other.depth

\* part2's Hash::hash: the values fed to the hasher, in order
hash2(state) ==
    LET ab == canonical_positions(state)
    IN <<ab[1], ab[2], state.open_valves, state.depth>>

cache_get2(cache, k) == cache[k[1]][k[2]][k[3]][k[4]]
cache_insert2(cache, k, state, rate) ==
    [cache EXCEPT ![k[1]][k[2]][k[3]][k[4]] = Some([state |-> state, rate |-> rate])]

empty_cache2(net, ac) ==
    [d \in 0..ac |->
        [a \in ValveIdsOf(net) |->
            [b \in ValveIdsOf(net) |->
                [m \in 0..2 ^ Cardinality(ValveIdsOf(net)) - 1 |-> None]]]]

\* HashMap<usize, usize>::new() and get(..).unwrap_or(&0)
empty_best(ac) == [d \in 0..ac |-> None]

\* best_at_depth read as if no rate had been recorded
best_get_Unset(best, d) == 0

best_get(best, d) == IF is_some(best[d]) THEN unwrap(best[d]) ELSE 0

\* usize::saturating_sub
saturating_sub(a, b) == IF a >= b THEN a - b ELSE 0

\* PriorityQueue::push: an item equal to one in the queue only changes that
\* entry's priority, the queue keeps the item it holds
pq_push(queue, item, priority) ==
    IF \E e \in queue : key2(e.item) = key2(item)
    THEN LET e == CHOOSE e \in queue : key2(e.item) = key2(item)
         IN (queue \ {e}) \cup {[item |-> e.item, priority |-> priority]}
    ELSE queue \cup {[item |-> item, priority |-> priority]}

\* PriorityQueue::pop returns an entry of the greatest priority
pq_max(queue) == {e \in queue : \A f \in queue : f.priority <= e.priority}

\* the body of part2's `for child in expand(..)`, children i.. of the list
RECURSIVE admit2(_, _, _, _, _)
admit2(s, children, i, net, mins) ==
    IF i > Len(children) \/ s.panicked THEN s
    ELSE LET child == children[i]
             rate == state_pressure2(child, net, mins)
         IN IF rate.tag # "Ok" THEN [s EXCEPT !.panicked = TRUE]
            ELSE
            LET best1 == IF rate.val > best_get(s.best_at_depth, child.depth)
                         THEN [s.best_at_depth EXCEPT ![child.depth] = Some(rate.val)]
                         ELSE s.best_at_depth
                best_at_prev_depth ==
                    best_get(best1, saturating_sub(child.depth, SlackWindow))
                s1 == [s EXCEPT !.best_at_depth = best1]
            IN IF rate.val < best_at_prev_depth
               THEN admit2(s1, children, i + 1, net, mins)
               ELSE IF improves(rate.val, cache_get2(s1.flow_rates_cache, key2(child)))
               THEN admit2([s1 EXCEPT
                              !.flow_rates_cache =
                                  cache_insert2(@, key2(child), child, rate.val),
                              !.frontier = pq_push(@, child, rate.val)],
                           children, i + 1, net, mins)
               ELSE admit2(s1, children, i + 1, net, mins)

\* expansion stopping one depth early
expands2_StopsEarly(state, ac) == state.depth + 1 < ac

\* `if state.depth < action_count`
expands2(state, ac) == state.depth < ac

\* one iteration of part2's `while let Some((state, rate)) = frontier.pop()`,
\* the entry popped being e
iterate2(s, e, net, ac, mins) ==
    LET popped == [s EXCEPT !.frontier = @ \ {e}]
    IN IF expands2(e.item, ac)
       THEN admit2(popped, expand2(e.item, net), 1, net, mins)
       ELSE popped

terminal2(cache, ac) ==
    UNION {UNION {{unwrap(cache[ac][a][b][m]) :
                      m \in {m \in DOMAIN cache[ac][a][b] : is_some(cache[ac][a][b][m])}}
                  : b \in DOMAIN cache[ac][a]}
           : a \in DOMAIN cache[ac]}

--------------------------------------------------------------------------
(* The search engines run iteration by iteration *)

MaxHorizon == 5     \* part1: solve(network, H, H) for H in 0..MaxHorizon
MaxDualHorizon == 4 \* part2: solve(network, H, H) for H in 0..MaxDualHorizon

OneTunnel == {p \in Pairs : p = {0, 1}}
TwoTunnels == {p \in Pairs : p = {0, 1} \/ p = {1, 2}}
FlowChoices == [Valves -> {0, 1, MaxFlow}]

\* a network of the start valve alone, its tunnel list empty
LoneValve ==
    ZeroBased([start_position |-> 0, flow_rates |-> <<1>>, edges |-> << <<>> >>])

\* the networks the single-agent search is run on
Search1Networks ==
    {NetworkOf(t, f) : t \in {{}, OneTunnel, Line, Star, Pairs}, f \in FlowChoices}
    \cup {ZeroBased(n) : n \in ExtraNetworks}
    \cup {LoneValve}

\* the networks both engines are run on: a path of at most three valves from
\* the start valve, and a one-way tunnel to a dead end
Search2Networks ==
    {NetworkOf(t, f) :
        t \in {OneTunnel, TwoTunnels},
        f \in {FlowRamp,
               [v \in Valves |-> MaxFlow],
               [v \in Valves |-> IF v = 1 THEN 1 ELSE MaxFlow]}}
    \cup {ZeroBased(n) : n \in {n \in ExtraNetworks : Len(n.flow_rates) = 2}}

InitSearchCommon ==
    /\ input = <<>>
    /\ minutes = action_count
    /\ actions = <<>>
    /\ result = <<>>
    /\ minute = 0
    /\ released = 0
    /\ open_valves = DefaultOpenValves
    /\ human_position = network.start_position
    /\ elephant_position = network.start_position
    /\ best_at_depth = empty_best(action_count)

InitSolve1On(networks, horizons) ==
    /\ pc = "solve1"
    /\ network \in networks
    /\ action_count \in horizons
    /\ frontier = <<initial_state1(network)>>
    /\ flow_rates_cache = empty_cache1(network, action_count)
    /\ InitSearchCommon

InitSolve1 == InitSolve1On(Search1Networks, 0..MaxHorizon)

InitSolve2 ==
    /\ pc = "solve2"
    /\ network \in Search2Networks
    /\ action_count \in 0..MaxDualHorizon
    /\ frontier = {[item |-> initial_state2(network), priority |-> 0]}
    /\ flow_rates_cache = empty_cache2(network, action_count)
    /\ InitSearchCommon

InitSolve == InitSolve1On(Search2Networks, 0..MaxDualHorizon) \/ InitSolve2

SearchLocals == SearchState(frontier, flow_rates_cache, best_at_depth)

SetSearchLocals(s) ==
    /\ frontier' = s.frontier
    /\ flow_rates_cache' = s.flow_rates_cache
    /\ best_at_depth' = s.best_at_depth

\* part1: one iteration of the search loop
Solve1Iterate ==
    /\ pc = "solve1"
    /\ result = <<>>
    /\ frontier # <<>>
    /\ LET s == iterate1(SearchLocals, network, action_count, minutes)
       IN /\ SetSearchLocals(s)
          /\ result' \in IF s.panicked THEN failure_outcomes(minutes) ELSE {<<>>}
    /\ UNCHANGED <<pc, input, network, minutes, action_count, actions, simVars>>

\* the plan of the chosen entry; debug_assert_eq!(actions.len(), action_count)
\* panics in a debug build
ReturnPlan(entries, asserted) ==
    IF entries = {}
    THEN /\ result' = <<SearchExhausted>>      \* .last().unwrap() on None
         /\ UNCHANGED actions
    ELSE \E e \in chosen_entries(entries) :
            /\ actions' = backtrack(e.state)
            /\ result' \in
                 IF asserted /\ Len(backtrack(e.state)) # action_count
                 THEN {<<Panic>>, <<Plan>>}
                 ELSE {<<Plan>>}

\* part1: `// Find best path` to the return
Solve1Return ==
    /\ pc = "solve1"
    /\ result = <<>>
    /\ frontier = <<>>
    /\ ReturnPlan(terminal1(flow_rates_cache, action_count), TRUE)
    /\ UNCHANGED <<pc, input, network, minutes, action_count, simVars, searchVars>>

\* part2: one iteration of the search loop
Solve2Iterate ==
    /\ pc = "solve2"
    /\ result = <<>>
    /\ \E e \in pq_max(frontier) :
         LET s == iterate2(SearchLocals, e, network, action_count, minutes)
         IN /\ SetSearchLocals(s)
            /\ result' \in IF s.panicked THEN failure_outcomes(minutes) ELSE {<<>>}
    /\ UNCHANGED <<pc, input, network, minutes, action_count, actions, simVars>>

\* part2: `// Find best path` to the return
Solve2Return ==
    /\ pc = "solve2"
    /\ result = <<>>
    /\ frontier = {}
    /\ ReturnPlan(terminal2(flow_rates_cache, action_count), FALSE)
    /\ UNCHANGED <<pc, input, network, minutes, action_count, simVars, searchVars>>

NextSolve1 == Solve1Iterate \/ Solve1Return

NextSolve == Solve1Iterate \/ Solve1Return \/ Solve2Iterate \/ Solve2Return

\* the single-agent engine alone
SpecSolve1 == InitSolve1 /\ [][NextSolve1]_vars

\* both engines
SpecSolve == InitSolve /\ [][NextSolve]_vars

--------------------------------------------------------------------------
(* The reference scenario of the tests (mod test_with_sample) *)

\* the horizon of part1's tests and of part2's test
SingleHorizon == 30
DualHorizon == 26

\* SAMPLE_INPUT parsed: the valves AA..JJ as 0..9 in sorted order, start AA,
\* each tunnel list in the order of its line
SampleNetwork ==
    ZeroBased(
      [start_position |-> 0,
       flow_rates |-> <<0, 13, 2, 20, 3, 0, 0, 22, 0, 21>>,
       edges |-> << <<3, 8, 1>>, <<2, 0>>, <<3, 1>>, <<2, 0, 4>>, <<5, 3>>,
                    <<4, 6>>, <<5, 7>>, <<6>>, <<0, 9>>, <<8>> >>])

\* part1's get_sample_plan
SamplePlan1 ==
    << MoveTo(3), Open, MoveTo(2), MoveTo(1), Open, MoveTo(0), MoveTo(8),
       MoveTo(9), Open, MoveTo(8), MoveTo(0), MoveTo(3), MoveTo(4), MoveTo(5),
       MoveTo(6), MoveTo(7), Open, MoveTo(6), MoveTo(5), MoveTo(4), Open,
       MoveTo(3), MoveTo(2), Open >>

\* part2's get_sample_plan: (human, elephant)
SamplePlan2 ==
    << <<MoveTo(8), MoveTo(3)>>, <<MoveTo(9), Open>>, <<Open, MoveTo(4)>>,
       <<MoveTo(8), MoveTo(5)>>, <<MoveTo(0), MoveTo(6)>>,
       <<MoveTo(1), MoveTo(7)>>, <<Open, Open>>, <<MoveTo(2), MoveTo(6)>>,
       <<Open, MoveTo(5)>>, <<Open, MoveTo(4)>>, <<Open, Open>> >>

\* the Simulators on the sample plans, for every horizon up to the tests'
InitSample ==
    /\ input = <<>>
    /\ network = SampleNetwork
    /\ \/ /\ pc = "score1"
          /\ actions = SamplePlan1
          /\ minutes \in 1..SingleHorizon
       \/ /\ pc = "score2"
          /\ actions = SamplePlan2
          /\ minutes \in 1..DualHorizon
    /\ action_count = 0
    /\ minute = 0
    /\ released = 0
    /\ open_valves = DefaultOpenValves
    /\ human_position = network.start_position
    /\ elephant_position = network.start_position
    /\ result = <<>>
    /\ frontier = <<>>
    /\ flow_rates_cache = <<>>
    /\ best_at_depth = <<>>

SpecSample == InitSample /\ [][NextSim]_vars

--------------------------------------------------------------------------
(* Properties of the Simulator (checked under Spec) *)

Returned == result # <<>>
Failed == result = <<Err>>

\* the two agents' action streams of the plan being scored
HumanActs == IF pc = "score2" THEN [i \in 1..Len(actions) |-> actions[i][1]] ELSE actions
ElephantActs == IF pc = "score2" THEN [i \in 1..Len(actions) |-> actions[i][2]] ELSE <<>>

\* where an agent stands after the first k actions of its stream
RECURSIVE PosOf(_, _)
PosOf(acts, k) ==
    IF k = 0 THEN network.start_position
    ELSE IF acts[k].kind = "MoveTo" THEN acts[k].valve_id
    ELSE PosOf(acts, k - 1)

NeighboursOf(v) == {network.edges[v][j] : j \in 1..Len(network.edges[v])}

\* action i of the stream is a MoveTo to a valve that is no neighbour
MoveIllegal(acts, i) ==
    /\ acts[i].kind = "MoveTo"
    /\ acts[i].valve_id \notin NeighboursOf(PosOf(acts, i - 1))

IllegalMoveAt(i) ==
    \/ MoveIllegal(HumanActs, i)
    \/ i <= Len(ElephantActs) /\ MoveIllegal(ElephantActs, i)

\* the valves opened by the actions 1..k of a stream
OpenedBy(acts, k) == {PosOf(acts, j - 1) : j \in {j \in 1..k : acts[j].kind = "Open"}}

\* action i of the stream is an Open at a zero-flow valve, or at a valve
\* that an earlier action of either agent has opened
OpenIllegal(acts, i, openBefore) ==
    /\ acts[i].kind = "Open"
    /\ \/ network.flow_rates[PosOf(acts, i - 1)] = 0
       \/ PosOf(acts, i - 1) \in openBefore

IllegalOpenAt(i) ==
    \/ OpenIllegal(HumanActs, i,
                   OpenedBy(HumanActs, i - 1) \cup
                   OpenedBy(ElephantActs, IF pc = "score2" THEN i - 1 ELSE 0))
    \/ /\ i <= Len(ElephantActs)
       /\ OpenIllegal(ElephantActs, i,
                      OpenedBy(HumanActs, i - 1) \cup OpenedBy(ElephantActs, i - 1))

\* in tick i both agents stand at the same valve and both perform Open
DoubleOpenAt(i) ==
    /\ pc = "score2"
    /\ actions[i][1].kind = "Open"
    /\ actions[i][2].kind = "Open"
    /\ PosOf(HumanActs, i - 1) = PosOf(ElephantActs, i - 1)

RECURSIVE SumOver(_, _)
SumOver(S, f) ==
    IF S = {} THEN 0
    ELSE LET x == CHOOSE y \in S : TRUE IN f[x] + SumOver(S \ {x}, f)

\* the 0-based index of the first Open performed at v
FirstOpen(v) ==
    CHOOSE t \in 0..Len(actions) - 1 :
        /\ actions[t + 1].kind = "Open" /\ PosOf(actions, t) = v
        /\ \A u \in 0..t - 1 : ~(actions[u + 1].kind = "Open" /\ PosOf(actions, u) = v)

\* the valves opened by the first horizon - 1 actions of the plan
OpenedInTime ==
    {v \in ValveIdsOf(network) :
        \E t \in 0..Len(actions) - 1 :
            t < minutes - 1 /\ actions[t + 1].kind = "Open" /\ PosOf(actions, t) = v}

ClosedFormTotal ==
    SumOver(OpenedInTime,
            [v \in OpenedInTime |-> network.flow_rates[v] * (minutes - 1 - FirstOpen(v))])

\* C4: the single-agent Score of a legal plan ends after exactly
\* horizon - 1 ticks with the sum, over the valves v the plan opens in time,
\* of flow(v) * (horizon - 1 - t_v), t_v the index of the first Open at v
C4_ScoreClosedForm ==
    (pc = "score1" /\ Returned /\ \A i \in 1..Len(actions) : ~IllegalMoveAt(i))
        => /\ minute = minutes - 1
           /\ result = <<Ok(ClosedFormTotal)>>

\* two valves opened at different ticks, one Open repeated, a positive total
C4_Witness ==
    /\ pc = "score1" /\ Returned
    /\ \A i \in 1..Len(actions) : ~IllegalMoveAt(i)
    /\ Cardinality(OpenedInTime) = 2
    /\ \E v, w \in OpenedInTime :
         FirstOpen(v) # FirstOpen(w) /\ network.flow_rates[v] # network.flow_rates[w]
                                    /\ network.flow_rates[v] > 0
                                    /\ network.flow_rates[w] > 0
    /\ minute = 3

\* C5 as stated: a plan with an illegal MoveTo anywhere fails at every horizon
C5_IllegalMoveAnywhereFails ==
    (Returned /\ \E i \in 1..Len(actions) : IllegalMoveAt(i)) => Failed

\* C5: Score fails exactly when one of the first horizon - 1 actions (action
\* pairs) holds a MoveTo to a valve that is no neighbour of the agent's
\* position at that point
C5_IllegalMoveInHorizonFails ==
    Returned =>
        (Failed <=> \E i \in 1..Len(actions) : i <= minutes - 1 /\ IllegalMoveAt(i))

\* the elephant's second action is the first illegal MoveTo, and Score failed
C5_Witness ==
    /\ pc = "score2" /\ Failed
    /\ Len(actions) = 2 /\ minutes >= 3
    /\ ~IllegalMoveAt(1)
    /\ ~MoveIllegal(HumanActs, 2)
    /\ MoveIllegal(ElephantActs, 2)

\* C6 as stated: a performed Open at a zero-flow or already open valve makes
\* Score fail
C6_IllegalOpenFails ==
    (Returned /\ \E i \in 1..Len(actions) :
                    /\ i <= minutes - 1
                    /\ IllegalOpenAt(i)
                    /\ \A j \in 1..i : ~IllegalMoveAt(j))
        => Failed

\* C6: an Open at a zero-flow or already open valve never makes Score fail:
\* a plan whose first horizon - 1 actions hold no illegal MoveTo is scored Ok
C6_IllegalOpenAccepted ==
    (Returned /\ \A i \in 1..Len(actions) : i <= minutes - 1 => ~IllegalMoveAt(i))
        => result # <<Err>>

\* a dual plan scored Ok in whose second tick the human opens a zero-flow
\* valve and the elephant opens a valve it has opened in the first tick
C6_Witness ==
    /\ pc = "score2" /\ Returned /\ ~Failed
    /\ Len(actions) = 2 /\ minutes >= 3
    /\ HumanActs[2].kind = "Open"
    /\ network.flow_rates[PosOf(HumanActs, 1)] = 0
    /\ ElephantActs[2].kind = "Open"
    /\ network.flow_rates[PosOf(ElephantActs, 1)] > 0
    /\ PosOf(ElephantActs, 1) \in OpenedBy(ElephantActs, 1)

\* C7: the dual-agent Simulator fails when both agents, at the same valve,
\* perform Open in one tick
C7_DoubleOpenFails ==
    (Returned /\ pc = "score2" /\ \E i \in 1..Len(actions) :
                    /\ i <= minutes - 1
                    /\ DoubleOpenAt(i)
                    /\ \A j \in 1..i : ~IllegalMoveAt(j))
        => Failed

\* C8: at horizon 1 the Score of any plan is Ok(0)
C8_HorizonOneIsZero ==
    (Returned /\ minutes = 1) => result = <<Ok(0)>>

\* horizon 1, a plan that starts with an illegal MoveTo, scored
C8_Witness ==
    /\ Returned /\ minutes = 1
    /\ Len(actions) >= 1 /\ IllegalMoveAt(1)
    /\ minute = 0

--------------------------------------------------------------------------
(* Properties of the search engines (checked under SpecSolve1, SpecSolve) *)

PlanReturned == result = <<Plan>>

FlowOfSet(S) == SumOver(S, [v \in S |-> network.flow_rates[v]])

\* the best total any sequence of Open and MoveTo-a-neighbour actions can
\* still add from tick t on, the agent at pos and the valves of opened open
RECURSIVE BestFrom(_, _, _)
BestFrom(pos, opened, t) ==
    IF t >= minutes - 1 THEN 0
    ELSE LET byOpen == FlowOfSet(opened \cup {pos})
                         + BestFrom(pos, opened \cup {pos}, t + 1)
             byMove == {FlowOfSet(opened) + BestFrom(n, opened, t + 1) :
                           n \in NeighboursOf(pos)}
         IN CHOOSE b \in byMove \cup {byOpen} : \A c \in byMove \cup {byOpen} : c <= b

BestTotal == BestFrom(network.start_position, {}, 0)

EveryValveHasATunnel == \A v \in ValveIdsOf(network) : network.edges[v] # <<>>

\* C1: on a network where every valve has a tunnel and for a horizon H >= 2,
\* the plan the single-agent solve(network, H, H) returns is scored by the
\* Simulator at horizon H with the maximum over all legal action sequences
C1_SolveIsOptimal ==
    (pc = "solve1" /\ PlanReturned /\ minutes >= 2 /\ EveryValveHasATunnel)
        => total_pressure_released1(network, actions, minutes) = Ok(BestTotal)

\* the key a single-agent action sequence leads to, and the legal sequences
KeyOfPlan(plan) ==
    LET opens == {PosOf(plan, j - 1) : j \in {j \in 1..Len(plan) : plan[j].kind = "Open"}}
    IN <<Len(plan), PosOf(plan, Len(plan)), SumOver(opens, [v \in opens |-> 2 ^ v])>>

LegalPlan(plan) == \A i \in 1..Len(plan) : ~MoveIllegal(plan, i)

\* a plan was returned at the largest horizon, it opens valves, and the memo
\* table holds a key that a legal sequence of a lower reward also leads to:
\* the dominance pruning has discarded a path
C1_Witness ==
    /\ pc = "solve1" /\ PlanReturned /\ minutes = MaxHorizon /\ EveryValveHasATunnel
    /\ BestTotal > 0
    /\ \E d \in 2..MaxHorizon - 1 :
         \E e \in terminal1(flow_rates_cache, d) :
           \E q \in [1..d -> ActionsOf(network)] :
              /\ LegalPlan(q)
              /\ KeyOfPlan(q) = key1(e.state)
              /\ total_pressure_released1(network, q, minutes).val < e.rate

\* C9 as stated: a returned plan has horizon - 1 actions
C9_PlanLengthIsHorizonMinusOne ==
    PlanReturned => Len(actions) = minutes - 1

\* C9: a plan returned by solve(network, H, H), of either engine, has
\* exactly H (= action_count) actions or action pairs
C9_PlanLengthIsActionCount ==
    PlanReturned => Len(actions) = action_count

\* the dual-agent engine has returned a plan at the largest horizon
C9_Witness ==
    /\ pc = "solve2" /\ PlanReturned
    /\ action_count = MaxDualHorizon
    /\ Len(actions) = MaxDualHorizon

\* every NetworkState held by the frontier or the memo table
GeneratedStates ==
    IF pc = "solve1"
    THEN {frontier[i] : i \in 1..Len(frontier)}
         \cup {e.state : e \in UNION {terminal1(flow_rates_cache, d) :
                                         d \in DOMAIN flow_rates_cache}}
    ELSE {e.item : e \in frontier}
         \cup {e.state : e \in UNION {terminal2(flow_rates_cache, d) :
                                         d \in DOMAIN flow_rates_cache}}

\* C10: every generated state is one deeper than its parent, and none is
\* deeper than the horizon
C10_DepthCappedAtHorizon ==
    \A st \in GeneratedStates :
        /\ st.depth <= minutes
        /\ is_some(st.parent) => st.depth = unwrap(st.parent).depth + 1

--------------------------------------------------------------------------
(* Properties of the reference scenario (checked under SpecSample) *)

\* C3: on the reference network the dual-agent Simulator scores the test's
\* 11-step dual-agent plan at horizon 26 as Ok(1707)
C3_DualSampleIs1707 ==
    (pc = "score2" /\ network = SampleNetwork /\ actions = SamplePlan2
        /\ minutes = DualHorizon /\ Returned)
        => result = <<Ok(1707)>>

\* that run has returned after its 25 ticks
C3_Witness ==
    /\ pc = "score2" /\ network = SampleNetwork /\ actions = SamplePlan2
    /\ minutes = DualHorizon /\ minute = DualHorizon - 1
    /\ result = <<Ok(1707)>>

--------------------------------------------------------------------------
(* Further properties of the search engines *)

\* the plans that part1's `// Find best path` can return from this state:
\* one per memo entry that the stable sort may leave last
ReturnablePlans1 ==
    {backtrack(e.state) :
        e \in chosen_entries(terminal1(flow_rates_cache, action_count))}

\* C11: when the single-agent search loop has ended, the plan returned is
\* the same whatever order the memo table is iterated in
C11_ReturnedPlanIsUnique ==
    (pc = "solve1" /\ result = <<>> /\ frontier = <<>>)
        => Cardinality(ReturnablePlans1) <= 1

\* the valves that can be reached from the start valve along the tunnels
RECURSIVE ReachFrom(_)
ReachFrom(S) ==
    LET next == S \cup {w \in ValveIdsOf(network) : \E v \in S : contains(network.edges[v], w)}
    IN IF next = S THEN S ELSE ReachFrom(next)

Connected == ReachFrom({network.start_position}) = ValveIdsOf(network)

\* C12 as stated: on a connected network the single-agent search returns a
\* Plan for every horizon >= 1
C12_ConnectedNeverExhausted ==
    (pc = "solve1" /\ Returned /\ Connected /\ minutes >= 1) => PlanReturned

\* C12: on a network where a tunnel leads out of every valve that can be
\* reached from the start, the single-agent search returns a Plan for every
\* horizon >= 1
C12_TunnelsOutNeverExhausted ==
    (pc = "solve1" /\ Returned /\ minutes >= 1
        /\ \A v \in ReachFrom({network.start_position}) : network.edges[v] # <<>>)
        => PlanReturned

\* a plan of MaxHorizon actions was returned on a network with a one-way
\* tunnel, every reachable valve having a tunnel out
C12_Witness ==
    /\ pc = "solve1" /\ PlanReturned /\ minutes = MaxHorizon
    /\ Len(actions) = MaxHorizon
    /\ \A v \in ReachFrom({network.start_position}) : network.edges[v] # <<>>
    /\ \E v, w \in ValveIdsOf(network) :
          contains(network.edges[v], w) /\ ~contains(network.edges[w], v)

\* C13: a search engine run with horizon 0 ends in SearchExhausted, and in
\* no other failure
C13_HorizonZeroIsExhausted ==
    (pc \in {"solve1", "solve2"} /\ minutes = 0 /\ Returned)
        => result = <<SearchExhausted>>

\* the two agents' action streams of the plan a search engine has returned
PlanHuman == IF pc = "solve2" THEN [i \in 1..Len(actions) |-> actions[i][1]] ELSE actions
PlanElephant == IF pc = "solve2" THEN [i \in 1..Len(actions) |-> actions[i][2]] ELSE <<>>

\* action i of the returned plan holds an Open at a zero-flow valve or at a
\* valve that is open at that point: opened in an earlier tick, or, for the
\* elephant, by the human in the same tick
PlanOpenIllegalAt(i) ==
    \/ OpenIllegal(PlanHuman, i,
                   OpenedBy(PlanHuman, i - 1) \cup
                   OpenedBy(PlanElephant, IF pc = "solve2" THEN i - 1 ELSE 0))
    \/ /\ pc = "solve2"
       /\ OpenIllegal(PlanElephant, i,
                      OpenedBy(PlanHuman, i) \cup OpenedBy(PlanElephant, i - 1))

\* C14: no plan returned by the single-agent or the dual-agent search holds
\* an Open at a zero-flow valve or at a valve that is open at that point
C14_PlansOpenLegally ==
    (pc \in {"solve1", "solve2"} /\ PlanReturned)
        => \A i \in 1..Len(actions) : ~PlanOpenIllegalAt(i)

\* a returned dual-agent plan in which both agents open a valve and an agent
\* stands at a zero-flow valve while an action is still to come
C14_Witness ==
    /\ pc = "solve2" /\ PlanReturned
    /\ \E i \in 1..Len(actions) : PlanHuman[i].kind = "Open"
    /\ \E i \in 1..Len(actions) : PlanElephant[i].kind = "Open"
    /\ \E i \in 1..Len(actions) :
          \/ network.flow_rates[PosOf(PlanHuman, i - 1)] = 0
          \/ network.flow_rates[PosOf(PlanElephant, i - 1)] = 0
    /\ \A i \in 1..Len(actions) : ~PlanOpenIllegalAt(i)

--------------------------------------------------------------------------
(* Relations between plans (checked under Spec) *)

\* the plan without its action i, the later actions one tick earlier
Delete(plan, i) == SubSeq(plan, 1, i - 1) \o SubSeq(plan, i + 1, Len(plan))

\* the indices of the single-agent plan's Opens performed at a zero-flow valve
ZeroFlowOpens ==
    {i \in 1..Len(actions) :
        actions[i].kind = "Open" /\ network.flow_rates[PosOf(actions, i - 1)] = 0}

ScoreWithout(i) == total_pressure_released1(network, Delete(actions, i), minutes)

\* C15 as stated: deleting one Open at a zero-flow valve from any plan gives
\* a plan with a Score, and one that is not lower
C15_DeleteNeverLowers ==
    (pc = "score1" /\ Returned /\ result[1].tag = "Ok")
        => \A i \in ZeroFlowOpens :
              /\ ScoreWithout(i).tag = "Ok"
              /\ ScoreWithout(i).val >= result[1].val

\* C15: deleting one Open at a zero-flow valve keeps a failure a failure and
\* gives a total that is not lower, unless the action that stood at index
\* horizon - 1, the first one not performed, is an illegal MoveTo that the
\* shift brings into the performed ticks: then the shorter plan fails
C15_DeleteNeverLowersIfLegal ==
    (pc = "score1" /\ Returned)
        => \A i \in ZeroFlowOpens :
              IF result[1].tag = "Ok"
              THEN \/ /\ ScoreWithout(i).tag = "Ok"
                      /\ ScoreWithout(i).val >= result[1].val
                   \/ /\ ScoreWithout(i) = Err
                      /\ i < minutes /\ minutes <= Len(actions)
                      /\ MoveIllegal(actions, minutes)
              ELSE ScoreWithout(i) = Err

\* a scored plan whose Open at a zero-flow valve delays a later Open: the
\* plan without it scores strictly more
C15_Witness ==
    /\ pc = "score1" /\ Returned /\ result[1].tag = "Ok"
    /\ \E i \in ZeroFlowOpens :
          /\ i < Len(actions)
          /\ ScoreWithout(i).tag = "Ok"
          /\ ScoreWithout(i).val > result[1].val

\* the actions that are legal for an agent at pos when the valves of mask ov
\* are open: Open at a closed valve of positive flow, MoveTo a neighbour
LegalActionsAt(ov, pos) ==
    (IF ~is_open(ov, pos) /\ network.flow_rates[pos] > 0 THEN {Open} ELSE {})
    \cup {MoveTo(n) : n \in NeighboursOf(pos)}

\* the pairs of one legal action per agent, but for the double Open of two
\* agents at the same valve
LegalPairsOf(state) ==
    {p \in LegalActionsAt(state.open_valves, state.human_position)
           \X LegalActionsAt(state.open_valves, state.elephant_position) :
        ~(p[1] = Open /\ p[2] = Open
            /\ state.human_position = state.elephant_position)}

--------------------------------------------------------------------------
(* part2::NetworkState's eq and hash applied to pairs of states *)

\* the states compared: every position pair, mask and depth 0 or 1, the
\* second state also with a parent and an action
KeyStates(links) ==
    {[human_position |-> h, elephant_position |-> e, open_valves |-> m,
      depth |-> d, parent |-> l[1], action |-> l[2]] :
        h \in Valves, e \in Valves, m \in 0..2 ^ NumValves - 1, d \in {0, 1},
        l \in links}

\* frontier holds the two operands (self, other)
InitEq ==
    /\ pc = "eq2"
    /\ network = NetworkOf(Line, FlowRamp)
    /\ frontier \in
         KeyStates({<<None, None>>})
         \X KeyStates({<<None, None>>,
                       <<Some(initial_state2(network)), Some(<<Open, MoveTo(0)>>)>>})
    /\ flow_rates_cache = <<>>
    /\ action_count = 0
    /\ InitSearchCommon

\* self == other, and the values each operand feeds to the hasher
CompareStates ==
    /\ pc = "eq2"
    /\ result = <<>>
    /\ result' = <<[tag |-> IF eq2(frontier[1], frontier[2]) THEN "Equal" ELSE "Unequal",
                    val |-> 0]>>
    /\ flow_rates_cache' = <<hash2(frontier[1]), hash2(frontier[2])>>
    /\ UNCHANGED <<pc, input, network, minutes, action_count, actions, simVars,
                   frontier, best_at_depth>>

SpecEq == InitEq /\ [][CompareStates]_vars

Equal == [tag |-> "Equal", val |-> 0]

\* other has the two positions of self swapped, and self's mask and depth
IsSwapOf(self, other) ==
    /\ other.human_position = self.elephant_position
    /\ other.elephant_position = self.human_position
    /\ other.open_valves = self.open_valves
    /\ other.depth = self.depth

\* C16: a dual-agent state and the state with the two positions swapped, of
\* any parent and action, are equal under eq and feed the same values to the
\* hasher; two states are equal exactly if their unordered position pair,
\* mask and depth coincide, which is also when their memo keys coincide
C16_SwapIsCanonical ==
    (pc = "eq2" /\ Returned) =>
        LET self == frontier[1]
            other == frontier[2]
        IN /\ IsSwapOf(self, other) =>
                 result = <<Equal>> /\ flow_rates_cache[1] = flow_rates_cache[2]
           /\ result = <<Equal>> <=>
                 /\ {self.human_position, self.elephant_position}
                       = {other.human_position, other.elephant_position}
                 /\ self.open_valves = other.open_valves
                 /\ self.depth = other.depth
           /\ result = <<Equal>> <=> key2(self) = key2(other)
           /\ result = <<Equal>> => flow_rates_cache[1] = flow_rates_cache[2]

\* two states with the agents at each other's distinct valves and a
\* different parent and action have been compared, and are equal
C16_Witness ==
    /\ pc = "eq2" /\ result = <<Equal>>
    /\ IsSwapOf(frontier[1], frontier[2])
    /\ frontier[1].human_position # frontier[1].elephant_position
    /\ frontier[1].parent # frontier[2].parent
    /\ frontier[1].action # frontier[2].action
    /\ flow_rates_cache[1] = flow_rates_cache[2]

--------------------------------------------------------------------------
(* The Simulator and the search engines side by side: a run is either one
   call of total_pressure_released or one call of solve *)

SpecDay16 == (InitSim \/ InitSolve) /\ [][NextSim \/ NextSolve]_vars

\* every valve open in mask before is open in mask after
Superset(after, before) ==
    \A v \in ValveIdsOf(network) : is_open(before, v) => is_open(after, v)

RECURSIVE ChainGrows(_)
\* along the chain of parents from state, each mask contains its parent's
ChainGrows(state) ==
    \/ ~is_some(state.parent)
    \/ /\ Superset(state.open_valves, unwrap(state.parent).open_valves)
       /\ ChainGrows(unwrap(state.parent))

SimulatorTickGrows == Superset(open_valves', open_valves)

SearchChainsGrow == pc \in {"solve1", "solve2"} => \A st \in GeneratedStates : ChainGrows(st)

\* C18: every step of a Simulator run leaves the Open-Set a superset of what
\* it was, and along the parent chain of every generated search state each
\* mask is a superset of its parent's
C18_OpenSetOnlyGrows == [][SimulatorTickGrows]_vars /\ []SearchChainsGrow

RECURSIVE TicksFrom(_, _, _, _, _)
\* the Simulator's locals after ticks m .. n - 1 of plan
TicksFrom(net, plan, st, m, n) ==
    IF m >= n \/ st.failed THEN st
    ELSE TicksFrom(net, plan, tick1(net, plan, st, m), m + 1, n)

\* a single-agent search state with two valves open, opened at two different
\* links of its parent chain, whose plan the Simulator ticks to the same
\* Open-Set
C18_Witness ==
    /\ pc = "solve1"
    /\ \E st \in GeneratedStates :
         /\ Cardinality({v \in ValveIdsOf(network) : is_open(st.open_valves, v)}) >= 2
         /\ is_some(st.parent)
         /\ unwrap(st.parent).open_valves # DefaultOpenValves
         /\ ChainGrows(st)
         /\ LET end == TicksFrom(network, backtrack(st),
                                 SimState(0, DefaultOpenValves, network.start_position,
                                          network.start_position), 0, st.depth)
            IN ~end.failed /\ end.open_valves = st.open_valves

--------------------------------------------------------------------------
(* The dual-agent search on a network with a long way to the large valves *)

DetourHorizon == 7

\* a one-way line from the start valve, of flow 1, past three valves of flow
\* 0 to two valves whose flow of one minute outweighs the start valve's of
\* the whole horizon, the last with a tunnel back
DetourNetwork ==
    ZeroBased([start_position |-> 0,
               flow_rates |-> <<1, 0, 0, 0, DetourHorizon, DetourHorizon>>,
               edges |-> << <<1>>, <<2>>, <<3>>, <<4>>, <<5>>, <<4>> >>])

InitSlack ==
    /\ pc = "solve2"
    /\ \/ network \in Search2Networks /\ action_count \in 1..MaxDualHorizon
       \/ network = DetourNetwork /\ action_count = DetourHorizon
    /\ frontier = {[item |-> initial_state2(network), priority |-> 0]}
    /\ flow_rates_cache = empty_cache2(network, action_count)
    /\ InitSearchCommon

SpecSlack == InitSlack /\ [][Solve2Iterate \/ Solve2Return]_vars

\* the valve an agent at pos stands at after action
After(pos, action) == IF action.kind = "MoveTo" THEN action.valve_id ELSE pos

\* the largest total a legal dual-agent plan of action_count pairs can still
\* add from tick t on, the agents at hp and ep and the valves of mask ov
\* open; -1 when no legal plan of that length goes on from there
RECURSIVE BestLegal2(_, _, _, _)
BestLegal2(hp, ep, ov, t) ==
    IF t >= action_count THEN 0
    ELSE LET here == [human_position |-> hp, elephant_position |-> ep, open_valves |-> ov]
             totals ==
                 {LET ov1 == IF p[1] = Open THEN open(ov, hp) ELSE ov
                      ov2 == IF p[2] = Open THEN open(ov1, ep) ELSE ov1
                      rest == BestLegal2(After(hp, p[1]), After(ep, p[2]), ov2, t + 1)
                  IN IF rest < 0 THEN -1
                     ELSE rest + (IF t < loop_end(minutes)
                                  THEN sum_flow(network, iter(ov2)) ELSE 0) :
                    p \in LegalPairsOf(here)}
         IN IF totals = {} THEN -1
            ELSE CHOOSE b \in totals : \A c \in totals : c <= b

BestLegalTotal2 ==
    BestLegal2(network.start_position, network.start_position, DefaultOpenValves, 0)

\* C19: the Simulator's score of the plan the dual-agent solve returns never
\* exceeds the best score of a legal dual-agent plan of that length, and on
\* the detour network at its horizon it is strictly below that best score
C19_SlackPruningLosesOptimum ==
    (pc = "solve2" /\ PlanReturned)
        => LET score == total_pressure_released2(network, actions, minutes)
               best == BestLegalTotal2
           IN /\ score.tag = "Ok"
              /\ score.val <= best
              /\ network = DetourNetwork /\ minutes = DetourHorizon
                    => score.val < best

\* the dual-agent solve has returned a plan for the detour network that the
\* Simulator scores strictly below the best score of a legal dual-agent
\* plan, and the memo table holds no state of the full depth with that score
C19_Witness ==
    /\ pc = "solve2"
    /\ PlanReturned
    /\ network = DetourNetwork
    /\ minutes = DetourHorizon
    /\ LET score == total_pressure_released2(network, actions, minutes)
           best == BestLegalTotal2
       IN /\ score.tag = "Ok"
          /\ score.val < best
          /\ \A e \in terminal2(flow_rates_cache, action_count) : e.rate < best

--------------------------------------------------------------------------
(* The memo table of the search engines (checked under SpecSolve) *)

KeyOf(st) == IF pc = "solve1" THEN key1(st) ELSE key2(st)

\* the memo entry of st's key: None or Some([state, rate])
MemoOf(cache, st) ==
    IF pc = "solve1" THEN cache_get(cache, key1(st)) ELSE cache_get2(cache, key2(st))

\* the reward of st: the Simulator's score of its backtracked actions
RewardOf(st) ==
    IF pc = "solve1" THEN state_pressure1(st, network, minutes).val
    ELSE state_pressure2(st, network, minutes).val

FrontierStates(fr) ==
    IF pc = "solve1" THEN {fr[i] : i \in 1..Len(fr)} ELSE {e.item : e \in fr}

\* the memo entry of key k, and the table with that entry replaced
MemoAt(cache, k) ==
    IF pc = "solve1" THEN cache_get(cache, k) ELSE cache_get2(cache, k)
MemoWith(cache, k, entry) ==
    IF pc = "solve1" THEN [cache EXCEPT ![k[1]][k[2]][k[3]] = entry]
    ELSE [cache EXCEPT ![k[1]][k[2]][k[3]][k[4]] = entry]

RECURSIVE MemoRestored(_, _, _)
\* the table after with the entries of keys as they are in before
MemoRestored(after, before, keys) ==
    IF keys = {} THEN after
    ELSE LET k == CHOOSE k \in keys : TRUE
         IN MemoRestored(MemoWith(after, k, MemoAt(before, k)), before, keys \ {k})

\* the keys a step has pushed for: those of the states put behind the
\* VecDeque's old ones, of the PriorityQueue's entries that are new or have a
\* new priority
PushedKeys ==
    IF frontier' = frontier THEN {}
    ELSE IF pc = "solve1"
    THEN {key1(frontier'[i]) : i \in Len(frontier)..Len(frontier')}
    ELSE {key2(e.item) : e \in frontier' \ frontier}

\* a step of a search puts a state on the frontier only if its reward
\* exceeds what the memo table held for its key before the step
PushedOnlyIfBetter ==
    pc \in {"solve1", "solve2"} =>
        \A st \in FrontierStates(frontier') \ FrontierStates(frontier) :
            LET before == MemoOf(flow_rates_cache, st)
            IN ~is_some(before) \/ RewardOf(st) > unwrap(before).rate

\* a step of a search changes the memo table only at the keys it pushes for,
\* and leaves each of them memoized with no smaller a reward
MemoNeverDecreases ==
    pc \in {"solve1", "solve2"} =>
        /\ MemoRestored(flow_rates_cache', flow_rates_cache, PushedKeys) = flow_rates_cache
        /\ \A k \in PushedKeys :
              LET before == MemoAt(flow_rates_cache, k)
                  after == MemoAt(flow_rates_cache', k)
              IN /\ is_some(after)
                 /\ is_some(before) => unwrap(after).rate >= unwrap(before).rate

\* a step of a search memoizes with a state that state's reward, and memoizes
\* for the key of every state it puts on the frontier no smaller a reward
MemoIsHighest ==
    pc \in {"solve1", "solve2"} =>
        /\ \A k \in PushedKeys :
              LET after == unwrap(MemoAt(flow_rates_cache', k))
              IN RewardOf(after.state) = after.rate
        /\ \A st \in FrontierStates(frontier') \ FrontierStates(frontier) :
              LET entry == MemoOf(flow_rates_cache', st)
              IN is_some(entry) /\ RewardOf(st) <= unwrap(entry).rate

\* C24: in both engines a child goes on the frontier only if its reward
\* strictly exceeds the reward memoized for its key, or the key is absent;
\* the memoized reward of a key never decreases, is the reward of a child
\* admitted for it, and is no smaller than that of any child admitted
C24_MemoKeepsHighest ==
    [][PushedOnlyIfBetter /\ MemoNeverDecreases /\ MemoIsHighest]_vars

\* the frontier holds a child whose key the memo table has since given to a
\* child of a strictly higher reward
C24_Witness ==
    /\ pc \in {"solve1", "solve2"}
    /\ \E st \in FrontierStates(frontier) :
         /\ is_some(st.parent)
         /\ is_some(MemoOf(flow_rates_cache, st))
         /\ RewardOf(st) < unwrap(MemoOf(flow_rates_cache, st)).rate

--------------------------------------------------------------------------
(* The action histories of generated states (checked under SpecSolve) *)

\* the states the next iteration may pop, and the children it generates
NextPopped ==
    IF pc = "solve1"
    THEN (IF frontier = <<>> THEN {} ELSE {Head(frontier)})
    ELSE {e.item : e \in pq_max(frontier)}

ChildrenOfFrontier ==
    IF pc = "solve1"
    THEN UNION {{expand1(st, network)[k] : k \in 1..Len(expand1(st, network))} :
                  st \in {st \in NextPopped : expands1(st, action_count)}}
    ELSE UNION {{expand2(st, network)[k] : k \in 1..Len(expand2(st, network))} :
                  st \in {st \in NextPopped : expands2(st, action_count)}}

\* the human's and the elephant's actions of a state's backtracked history
HistoryHuman(st) ==
    IF pc = "solve1" THEN backtrack(st)
    ELSE [i \in 1..Len(backtrack(st)) |-> backtrack(st)[i][1]]
HistoryElephant(st) ==
    IF pc = "solve1" THEN <<>>
    ELSE [i \in 1..Len(backtrack(st)) |-> backtrack(st)[i][2]]

\* every MoveTo of the history is to a neighbour of the valve the agent is at,
\* the history leads to the positions the state holds, and the Simulator
\* does not reject it
HistoryIsLegal(st) ==
    LET h == HistoryHuman(st)
        e == HistoryElephant(st)
    IN /\ \A i \in 1..Len(h) : ~MoveIllegal(h, i)
       /\ \A i \in 1..Len(e) : ~MoveIllegal(e, i)
       /\ IF pc = "solve1"
          THEN /\ PosOf(h, Len(h)) = st.current_position
               /\ state_pressure1(st, network, minutes).tag # "Err"
          ELSE /\ PosOf(h, Len(h)) = st.human_position
               /\ PosOf(e, Len(e)) = st.elephant_position
               /\ state_pressure2(st, network, minutes).tag # "Err"

\* C25: the backtracked history of every state either engine generates holds
\* no MoveTo to a non-neighbour of the position the agent holds there, and
\* its re-simulation does not end in the Simulator's error
C25_HistoriesAreLegal ==
    pc \in {"solve1", "solve2"} => \A st \in ChildrenOfFrontier : HistoryIsLegal(st)

\* the dual-agent engine has generated a child of three action pairs whose
\* agents stand at two valves, the human at the larger index, so that the
\* key's sorted positions are not the positions held
C25_Witness ==
    /\ pc = "solve2"
    /\ \E st \in ChildrenOfFrontier :
         /\ st.depth >= 3
         /\ st.human_position > st.elephant_position
         /\ \E i \in 1..st.depth : HistoryHuman(st)[i].kind = "MoveTo"
         /\ HistoryIsLegal(st)

--------------------------------------------------------------------------
(* The order of the dual-agent frontier *)

\* the dual-agent search on the line of three valves, one horizon further
InitBestFirst ==
    /\ pc = "solve2"
    /\ network = NetworkOf(TwoTunnels, FlowRamp)
    /\ action_count \in 1..MaxDualHorizon + 1
    /\ frontier = {[item |-> initial_state2(network), priority |-> 0]}
    /\ flow_rates_cache = empty_cache2(network, action_count)
    /\ InitSearchCommon

SpecBestFirst == InitBestFirst /\ [][Solve2Iterate \/ Solve2Return]_vars

--------------------------------------------------------------------------
(* The terminal states of the dual-agent search (checked under SpecSolve) *)

TunnelsOut == \A v \in ReachFrom({network.start_position}) : network.edges[v] # <<>>

MemoEntriesAt(d) == terminal2(flow_rates_cache, d)

\* C27 as stated: on a connected network of at least two valves the
\* dual-agent search with action_count >= 1 ends with a memoized state of
\* depth == action_count and returns a Plan
C27_ConnectedReachesTerminal ==
    (/\ pc = "solve2"
     /\ Returned
     /\ Connected
     /\ Cardinality(ValveIdsOf(network)) >= 2
     /\ action_count >= 1)
        => PlanReturned /\ terminal2(flow_rates_cache, action_count) # {}

\* C27: on a network where a tunnel leads out of every valve that can be
\* reached from the start, the dual-agent search with action_count >= 1 ends
\* with a memoized state of depth == action_count and returns a Plan
C27_TunnelsOutReachesTerminal ==
    (pc = "solve2" /\ Returned /\ TunnelsOut /\ action_count >= 1)
        => PlanReturned /\ terminal2(flow_rates_cache, action_count) # {}

\* a Plan was returned at a horizon where the slack window is in use, on a
\* network with a tunnel out of every valve, after the memo check or the
\* slack window has kept some generated child out of the memo table
C27_Witness ==
    /\ pc = "solve2"
    /\ PlanReturned
    /\ TunnelsOut
    /\ action_count > SlackWindow
    /\ Len(actions) = action_count
    /\ \E e \in MemoEntriesAt(action_count - 1) :
          \E k \in 1..Len(expand2(e.state, network)) :
              LET child == expand2(e.state, network)[k]
                  entry == cache_get2(flow_rates_cache, key2(child))
              IN ~is_some(entry)

--------------------------------------------------------------------------
(* The actions of a plan that the Simulator reads (checked under Spec) *)

ScoreOf(plan, mins) ==
    IF pc = "score1"
    THEN total_pressure_released1(network, plan, mins)
    ELSE total_pressure_released2(network, plan, mins)

PlanActions == IF pc = "score1" THEN ActionsOf(network)
               ELSE ActionsOf(network) \X ActionsOf(network)

FirstActions(plan, n) == SubSeq(plan, 1, IF n < Len(plan) THEN n ELSE Len(plan))

\* C29: the score of a plan is the score of its first horizon - 1 actions; a
\* plan shorter than horizon - 1 scores what it scores at the horizon it
\* fills plus, for every tick left, the flow of the valves open at its end;
\* an action appended at index >= horizon - 1, legal or not, changes nothing
C29_OnlyFirstActionsCount ==
    (pc \in {"score1", "score2"} /\ Returned) =>
        /\ result = <<ScoreOf(FirstActions(actions, minutes - 1), minutes)>>
        /\ Len(actions) < minutes - 1 =>
              LET filled == ScoreOf(actions, Len(actions) + 1)
              IN /\ result[1].tag = filled.tag
                 /\ result[1].tag = "Ok" =>
                      result[1].val =
                          filled.val + (minutes - 1 - Len(actions))
                                         * sum_flow(network, iter(open_valves))
        /\ Len(actions) >= minutes - 1 =>
              \A a \in PlanActions : <<ScoreOf(Append(actions, a), minutes)>> = result

\* a plan with an illegal MoveTo behind the horizon has been scored, with a
\* positive total
C29_Witness ==
    /\ pc \in {"score1", "score2"}
    /\ Returned
    /\ result[1].tag = "Ok"
    /\ result[1].val > 0
    /\ \E i \in 1..Len(actions) : i > minutes - 1 /\ IllegalMoveAt(i)

--------------------------------------------------------------------------
(* Termination of the search loops *)

\* the engines run to completion: the loop takes its next iteration, and the
\* code after the loop runs, whenever it can.  This is weak fairness of
\* NextSolve, WF_vars(NextSolve), with ENABLED <<NextSolve>>_vars written
\* out: a step of a loop or of the code after it is possible exactly as long
\* as the engine has not ended
SpecSolveFair ==
    /\ InitSolve
    /\ [][NextSolve]_vars
    /\ ([]<><<NextSolve>>_vars \/ []<>(result # <<>>))

FrontierIsEmpty == IF pc = "solve1" THEN frontier = <<>> ELSE frontier = {}

LoopIterates == Solve1Iterate \/ Solve2Iterate

\* C28: for every network and every action_count both search loops end the
\* way the claim gives, by the frontier becoming empty: no iteration of
\* either loop ends the engine
C28_LoopsEndByEmptyFrontier == [][LoopIterates => result' = <<>>]_vars

\* from horizon 1 on the frontier of either loop eventually becomes empty and
\* the engine then returns (checked under SpecSolveFair)
FrontierEmptiesFromOne ==
    (action_count >= 1) => <>(FrontierIsEmpty /\ Returned /\ result[1].tag # "NoReturn")

--------------------------------------------------------------------------
(* Scoring of plans that turn illegal (checked under Spec) *)

\* C23: a single-agent run that meets an illegal MoveTo within its horizon
\* returns the reward accrued before that action, and no error
C23_IllegalPlanScoresAccrued ==
    (/\ pc = "score1"
     /\ Returned
     /\ \E i \in 1..Len(actions) : i <= minutes - 1 /\ MoveIllegal(actions, i))
        => result = <<Ok(released)>>

--------------------------------------------------------------------------
(* Parsing: ValveNetwork::from_str *)

MaxLines == 2      \* lines of a description
MaxTunnels == 1    \* identifiers in the tunnel list of a line

\* identifiers as the bytes of their letters: "A", "AA", "B"
StartId == <<65, 65>>        \* "AA"
Identifiers == {<<65>>, StartId, <<66>>}

\* a line the nom parser rejects
MalformedLine == [parses |-> FALSE, id |-> <<>>, flow_rate |-> 0, valve_edges |-> <<>>]

\* the lines of a description: what the nom parser makes of each
Lines ==
    {[parses |-> TRUE, id |-> i, flow_rate |-> f, valve_edges |-> t] :
        i \in Identifiers, f \in {0, MaxFlow}, t \in SeqsUpTo(Identifiers, MaxTunnels)}
    \cup {MalformedLine}

\* an order by length first, then by the first byte
str_less_ShortFirst(a, b) ==
    Len(a) < Len(b) \/ (Len(a) = Len(b) /\ a # <<>> /\ a[1] < b[1])

\* the order of String: byte by byte, a proper prefix first
RECURSIVE str_less(_, _)
str_less(a, b) ==
    IF b = <<>> THEN FALSE
    ELSE IF a = <<>> THEN TRUE
    ELSE IF a[1] # b[1] THEN a[1] < b[1]
    ELSE str_less(Tail(a), Tail(b))

\* HashMap::insert line after line: the last line of an identifier wins
last_line_of(s, id) ==
    s[CHOOSE k \in 1..Len(s) : s[k].id = id /\ \A j \in k + 1..Len(s) : s[j].id # id]

\* valve_ids: the keys sorted, each given the number of keys before it
valve_ids_of(keys) == [k \in keys |-> Cardinality({j \in keys : str_less(j, k)})]

\* from_str: Ok(network), or a panic of one of its unwraps and map indexings
from_str(s) ==
    IF \E k \in 1..Len(s) : ~s[k].parses THEN Panic          \* .unwrap() of the line
    ELSE LET keys == {s[k].id : k \in 1..Len(s)}
             valve_ids == valve_ids_of(keys)
         IN IF StartId \notin keys THEN Panic                \* .find(..).map(..).unwrap()
            ELSE IF \E k \in keys :
                       \E j \in 1..Len(last_line_of(s, k).valve_edges) :
                           last_line_of(s, k).valve_edges[j] \notin keys
            THEN Panic                                        \* valve_ids[id]
            ELSE Ok([start_position |-> valve_ids[StartId],
                     flow_rates |-> [v \in 0..Cardinality(keys) - 1 |->
                         last_line_of(s, CHOOSE k \in keys : valve_ids[k] = v).flow_rate],
                     edges |-> [v \in 0..Cardinality(keys) - 1 |->
                         LET listed == last_line_of(s, CHOOSE k \in keys : valve_ids[k] = v).valve_edges
                         IN [j \in 1..Len(listed) |-> valve_ids[listed[j]]]]])

InitParse ==
    /\ pc = "from_str"
    /\ input \in SeqsUpTo(Lines, MaxLines)
    /\ network = None
    /\ minutes = 0
    /\ action_count = 0
    /\ actions = <<>>
    /\ result = <<>>
    /\ minute = 0
    /\ released = 0
    /\ open_valves = DefaultOpenValves
    /\ human_position = 0
    /\ elephant_position = 0
    /\ frontier = <<>>
    /\ flow_rates_cache = <<>>
    /\ best_at_depth = <<>>

\* input.parse(): the call of from_str and its return
Parse ==
    /\ pc = "from_str"
    /\ result = <<>>
    /\ LET r == from_str(input)
       IN /\ result' = <<[tag |-> r.tag, val |-> 0]>>
          /\ network' = IF r.tag = "Ok" THEN Some(r.val) ELSE network
    /\ UNCHANGED <<pc, input, minutes, action_count, actions, simVars, searchVars>>

SpecParse == InitParse /\ [][Parse]_vars

NoStartId == \A k \in 1..Len(input) : input[k].id # StartId

\* C20: parsing a description in which no line is of the valve "AA" returns
\* an error value
C20_NoStartIsErr ==
    (pc = "from_str" /\ result # <<>> /\ NoStartId) => result[1].tag = "Err"

Parsed == pc = "from_str" /\ result # <<>> /\ result[1].tag = "Ok"

\* a comes before b in the lexicographic order of their bytes
LexBefore(a, b) ==
    \E i \in 1..Len(b) :
        /\ \A j \in 1..i - 1 : j <= Len(a) /\ a[j] = b[j]
        /\ i > Len(a) \/ a[i] < b[i]

OneLinePerValve ==
    \A j, k \in 1..Len(input) : input[j].id = input[k].id => j = k

\* the network is the description's graph under the map index: the indices
\* are dense and in lexicographic order, the start position is that of "AA",
\* and every line's rate and tunnel list are found at its valve's index
IsomorphicBy(net, index) ==
    LET keys == DOMAIN index
        N == Cardinality(keys)
    IN /\ DOMAIN net.flow_rates = 0..N - 1
       /\ DOMAIN net.edges = 0..N - 1
       /\ \A a \in keys : index[a] \in 0..N - 1
       /\ \A a, b \in keys : LexBefore(a, b) => index[a] < index[b]
       /\ StartId \in keys /\ net.start_position = index[StartId]
       /\ \A k \in 1..Len(input) :
             LET a == input[k].id
                 listed == input[k].valve_edges
             IN /\ net.flow_rates[index[a]] = input[k].flow_rate
                /\ \A j \in 1..Len(listed) : listed[j] \in keys
                /\ net.edges[index[a]] = [j \in 1..Len(listed) |-> index[listed[j]]]

ParsedIsIsomorphic ==
    LET keys == {input[k].id : k \in 1..Len(input)}
    IN \E index \in [keys -> 0..Cardinality(keys) - 1] : IsomorphicBy(unwrap(network), index)

--------------------------------------------------------------------------
(* The Simulator on a network of more valves than the mask has bits *)

\* 65 valves: the start valve "AA" of index 0 and the valve of index 64 have a
\* positive flow and a tunnel to each other, the valves between have flow 0
WideNetwork ==
    [start_position |-> 0,
     flow_rates |-> [v \in 0..MaskBits |-> IF v \in {0, MaskBits} THEN 1 ELSE 0],
     edges |-> [v \in 0..MaskBits |->
                   IF v = 0 THEN <<MaskBits>> ELSE IF v = MaskBits THEN <<0>> ELSE <<>>]]

WideActions == {Open, MoveTo(0), MoveTo(MaskBits)}

InitWide ==
    /\ input = <<>>
    /\ network = WideNetwork
    /\ minutes \in 1..MaxMinutes
    /\ \/ /\ pc = "score1"
          /\ actions \in SeqsUpTo(WideActions, MaxPlanLen)
       \/ /\ pc = "score2"
          /\ actions \in SeqsUpTo(WideActions \X WideActions, MaxDualPlanLen)
    /\ action_count = 0
    /\ minute = 0
    /\ released = 0
    /\ open_valves = DefaultOpenValves
    /\ human_position = network.start_position
    /\ elephant_position = network.start_position
    /\ result = <<>>
    /\ frontier = <<>>
    /\ flow_rates_cache = <<>>
    /\ best_at_depth = <<>>

SpecWide == InitWide /\ [][NextSim]_vars

NonzeroFlow == {v \in ValveIdsOf(network) : network.flow_rates[v] > 0}

\* the valves the plan's Opens have acted on when the loop has run `minute`
\* ticks, the tick under way included
OpenedSoFar ==
    LET k == IF minute + 1 <= Len(actions) THEN minute + 1 ELSE Len(actions)
    IN OpenedBy(HumanActs, k)
       \cup OpenedBy(ElephantActs, IF pc = "score2" THEN k ELSE 0)

\* C22: on a network with at most 64 valves of nonzero flow no Open of the
\* Simulator overflows the shift, and every bit set in the mask is the bit of
\* a valve the plan has opened, its index the valve's own
C22_OpensStayInMask ==
    (pc \in {"score1", "score2"} /\ Cardinality(NonzeroFlow) <= MaskBits)
        => /\ result # <<Panic>>
           /\ \A k \in 1..Len(iter(open_valves)) : iter(open_valves)[k] \in OpenedSoFar

--------------------------------------------------------------------------
(* OpenValves::close applied to a set, directly or after open *)

CloseIds == 0..NumValves
CloseSets == 0..2 ^ (NumValves + 1) - 1

\* frontier holds the operands (set, id)
InitClose ==
    /\ pc = "close"
    /\ input = <<>>
    /\ network = NetworkOf(Line, FlowRamp)
    /\ frontier \in CloseSets \X CloseIds
    /\ open_valves = frontier[1]
    /\ actions = <<>>
    /\ result = <<>>
    /\ minutes = 0
    /\ action_count = 0
    /\ minute = 0
    /\ released = 0
    /\ human_position = network.start_position
    /\ elephant_position = network.start_position
    /\ flow_rates_cache = <<>>
    /\ best_at_depth = <<>>

\* set.open(id)
OpenFirst ==
    /\ pc = "close"
    /\ result = <<>>
    /\ actions = <<>>
    /\ open_valves' = open(open_valves, frontier[2])
    /\ actions' = <<Open>>
    /\ UNCHANGED <<pc, input, network, minutes, action_count, result, minute, released,
                   human_position, elephant_position, searchVars>>

\* .close(id), the set closed being kept in flow_rates_cache
CloseValve ==
    /\ pc = "close"
    /\ result = <<>>
    /\ open_valves' = close(open_valves, frontier[2])
    /\ flow_rates_cache' = <<open_valves>>
    /\ result' = <<[tag |-> IF shift_overflows(frontier[2]) THEN "ShiftOverflow" ELSE "Ok",
                    val |-> 0]>>
    /\ UNCHANGED <<pc, input, network, minutes, action_count, actions, minute, released,
                   human_position, elephant_position, frontier, best_at_depth>>

SpecClose == InitClose /\ [][OpenFirst \/ CloseValve]_vars

\* C30: close(set, id) has the bit of id clear and every other bit as in
\* set, and close(open(set, id), id) is set when id was not open in set
C30_CloseClearsOneBit ==
    (pc = "close" /\ Returned) =>
        /\ \A bit \in CloseIds :
              is_open(open_valves, bit)
                  <=> (bit # frontier[2] /\ is_open(flow_rates_cache[1], bit))
        /\ (actions = <<Open>> /\ ~is_open(frontier[1], frontier[2]))
              => open_valves = frontier[1]

==========================================================================
